---- MODULE Spec2Model ----
(***************************************************************************)
(* Voice-Based Rubber Duck Debugger: the session store                     *)
(* (backend/src/services/sessionManager.ts), the three provider services   *)
(* (stt.ts, gemini.ts, tts.ts) and the POST /debug/voice handler           *)
(* (backend/src/routes/debug.ts); and the browser side: the App           *)
(* component, the AudioRecorder and the API client.                        *)
(*                                                                         *)
(* Node runs one callback at a time, so every action below is one          *)
(* synchronous stretch of code between two suspension points (an awaited   *)
(* provider call or an awaited retry delay).                               *)
(*                                                                         *)
(* Strings that the code only stores or forwards are short sequences of    *)
(* tokens (<<>> is the empty string, \o is concatenation); strings that    *)
(* the code searches with includes() are sequences of characters.          *)
(* Time is Date.now() counted in hours: SESSION_TIMEOUT is 3,600,000 ms.   *)
(***************************************************************************)
EXTENDS Integers, Sequences, FiniteSets, TLC

VARIABLES
    sessions,     \* SessionManager.sessions: userId -> Session (a Map)
    now,          \* Date.now()
    elevenLabsKey,\* process.env.ELEVENLABS_API_KEY is set
    development,  \* process.env.NODE_ENV === 'development'
    req,          \* the requests, in order of arrival: req[1] arrives first
    received,     \* number of requests received so far
    faults,       \* number of failed provider attempts so far
    appendLog,    \* history: every turn pushed to a session since its creation
    storeCalls,   \* number of direct updateSession calls so far
    ui            \* the state of the App component in the browser

vars == << sessions, now, elevenLabsKey, development, ui, req, received, faults, appendLog, storeCalls >>

(***************************************************************************)
(* Bounds of the model.                                                    *)
(***************************************************************************)
MaxClock == 2
MaxFaults == 2
MaxStoreCalls == 3

(***************************************************************************)
(* Program constants.                                                      *)
(***************************************************************************)
MAX_TURNS == 20
\* the default of 3,600,000 ms, counted in hours like the clock
SESSION_TIMEOUT == 1

Users == {"u1", "u2"}
Slots == {1, 2}

(***************************************************************************)
(* Session store: sessionManager.ts                                        *)
(***************************************************************************)
ConversationTurn(input, output, timestamp) ==
    [input |-> input, output |-> output, timestamp |-> timestamp]

\* Map.set(key, value)
MapSet(m, key, value) ==
    [k \in (DOMAIN m) \cup {key} |-> IF k = key THEN value ELSE m[k]]

\* Map restricted to the keys in keep (Map.delete of every other key)
MapKeep(m, keep) == [k \in keep |-> m[k]]

\* Array.prototype.slice(-n), n > 0
SliceLast(arr, n) ==
    IF Len(arr) <= n THEN arr ELSE SubSeq(arr, Len(arr) - n + 1, Len(arr))

createSession(S, userId, t) ==
    MapSet(S, userId,
           [userId |-> userId, createdAt |-> t, lastAccessedAt |-> t,
            conversation |-> << >>])

\* a new session on every call
getSession_AlwaysCreates(S, userId, t) == createSession(S, userId, t)

getSession(S, userId, t) ==
    IF userId \notin DOMAIN S
    THEN createSession(S, userId, t)
    ELSE [S EXCEPT ![userId].lastAccessedAt = t]

\* an assignment of the new turn in place of the push
pushTurn_Overwrites(S, userId, input, output, t) ==
    << ConversationTurn(input, output, t) >>

\* an unshift in place of the push
pushTurn_Prepends(S, userId, input, output, t) ==
    << ConversationTurn(input, output, t) >>
    \o getSession(S, userId, t)[userId].conversation

\* session.conversation after the push, before the length check
pushTurn(S, userId, input, output, t) ==
    Append(getSession(S, userId, t)[userId].conversation,
           ConversationTurn(input, output, t))

\* the length check left out
enforceLimit_NoSlice(pushed) == pushed

\* slice(0, MAX_TURNS) in place of slice(-MAX_TURNS)
enforceLimit_KeepOldest(pushed) ==
    IF Len(pushed) > MAX_TURNS THEN SubSeq(pushed, 1, MAX_TURNS) ELSE pushed

\* the 20-turn limit applied to the pushed array
enforceLimit(pushed) ==
    IF Len(pushed) > MAX_TURNS THEN SliceLast(pushed, MAX_TURNS) ELSE pushed

\* one conversation shared by all sessions
updateSession_AllSessions(S, userId, input, output, t) ==
    LET S1 == getSession(S, userId, t)
    IN  [u \in DOMAIN S1 |->
           [S1[u] EXCEPT
              !.conversation =
                 enforceLimit(Append(@, ConversationTurn(input, output, t))),
              !.lastAccessedAt = t]]

\* createdAt refreshed together with lastAccessedAt
updateSession_TouchesCreatedAt(S, userId, input, output, t) ==
    LET S1 == getSession(S, userId, t)
    IN  [S1 EXCEPT
           ![userId].conversation =
              enforceLimit(Append(@, ConversationTurn(input, output, t))),
           ![userId].createdAt = t,
           ![userId].lastAccessedAt = t]

updateSession(S, userId, input, output, t) ==
    LET S1 == getSession(S, userId, t)
        pushed == pushTurn(S, userId, input, output, t)
    IN  [S1 EXCEPT ![userId].conversation = enforceLimit(pushed),
                   ![userId].lastAccessedAt = t]

\* >= in place of >
cleanupSessions_AtTimeout(S, t) ==
    MapKeep(S, {u \in DOMAIN S : ~(t - S[u].lastAccessedAt >= SESSION_TIMEOUT)})

\* a sweep that deletes nothing
cleanupSessions_Nothing(S, t) == S

\* a sweep that empties the idle sessions and leaves their keys
cleanupSessions_Torn(S, t) ==
    [u \in DOMAIN S |->
       IF t - S[u].lastAccessedAt > SESSION_TIMEOUT
       THEN [S[u] EXCEPT !.conversation = << >>]
       ELSE S[u]]

cleanupSessions(S, t) ==
    MapKeep(S, {u \in DOMAIN S : ~(t - S[u].lastAccessedAt > SESSION_TIMEOUT)})

clearAllSessions(S) == MapKeep(S, {})

(***************************************************************************)
(* Strings                                                                 *)
(***************************************************************************)
\* String.prototype.includes on character sequences
Includes(s, sub) ==
    \E i \in 1..(Len(s) - Len(sub) + 1) : SubSeq(s, i, i + Len(sub) - 1) = sub

\* a value that is null or undefined (never equal to a string of the model)
NULL == << "\\null" >>

\* JavaScript truthiness of a string-or-null value
Truthy(x) == x # NULL /\ x # << >>

\* Buffer.from(x).toString('base64'): injective, and empty exactly on empty input
Base64(x) == IF x = << >> THEN << >> ELSE << "b64(" >> \o x \o << ")" >>

MSG_VALIDATION ==
   << "B", "o", "t", "h", " ", "a", "u", "d", "i", "o", " ", "a", "n", "d", " ", "u", "s",
   "e", "r", "I", "d", " ", "a", "r", "e", " ", "r", "e", "q", "u", "i", "r", "e", "d" >>
MSG_STT_KEY ==
   << "E", "L", "E", "V", "E", "N", "L", "A", "B", "S", "_", "A", "P", "I", "_", "K", "E",
   "Y", " ", "i", "s", " ", "r", "e", "q", "u", "i", "r", "e", "d", " ", "f", "o", "r",
   " ", "S", "T", "T", " ", "s", "e", "r", "v", "i", "c", "e" >>
MSG_STT_TERMINAL ==
   << "I", " ", "c", "o", "u", "l", "d", "n", "'", "t", " ", "h", "e", "a", "r", " ", "t",
   "h", "a", "t", " ", "c", "l", "e", "a", "r", "l", "y", ".", " ", "P", "l", "e", "a",
   "s", "e", " ", "t", "r", "y", " ", "a", "g", "a", "i", "n", "." >>
MSG_STT_TOO_SHORT ==
   << "A", "u", "d", "i", "o", " ", "i", "n", "p", "u", "t", " ", "i", "s", " ", "e",
   "m", "p", "t", "y", " ", "o", "r", " ", "t", "o", "o", " ", "s", "h", "o", "r",
   "t" >>
MSG_STT_TIMEOUT ==
   << "S", "T", "T", " ", "A", "P", "I", " ", "r", "e", "q", "u", "e", "s", "t", " ",
   "t", "i", "m", "e", "o", "u", "t" >>
\* "STT API error: " followed by the message of the transport error
MSG_STT_API_ERROR ==
   << "S", "T", "T", " ", "A", "P", "I", " ", "e", "r", "r", "o", "r", ":", " ", "N",
   "e", "t", "w", "o", "r", "k", " ", "E", "r", "r", "o", "r" >>
NEEDLE_TIMEOUT == << "t", "i", "m", "e", "o", "u", "t" >>
NEEDLE_API == << "A", "P", "I" >>

FALLBACK_TEXT == << "Sorry, I didn't fully understand, could you rephrase?" >>
DATA_URL_PREFIX == << "data:audio/mpeg;base64," >>

(***************************************************************************)
(* What the environment can send and what the providers can return         *)
(***************************************************************************)
MIN_AUDIO_BYTES == 1000

\* req.body.audio: absent/empty, or base64 text given with its decoded size
Audios == { [given |-> FALSE, bytes |-> 0],
            [given |-> TRUE, bytes |-> MIN_AUDIO_BYTES - 1],
            [given |-> TRUE, bytes |-> MIN_AUDIO_BYTES] }
\* req.body.userId: absent/empty ("") or a user
UserIds == Users \cup {""}

\* (a reply without text is returned as '' and no step of the handler or of
\* the services looks at the text it forwards)
SttTexts == { << "my loop never terminates" >> }
LlmTexts == { << "Let's trace the loop condition" >> }
TtsAudio == { << "mpeg-bytes" >> }
SttFailures == {"timeout", "error"}
LlmFailures == {"timeout", "malformed"}
TtsFailures == {"timeout", "error"}

\* The per-attempt timeouts, in ms: STTService.timeout, TIMEOUT_MS of the
\* Gemini service, TTSService.timeout.
STT_TIMEOUT_MS == 30000
GEMINI_TIMEOUT_MS == 10000
TTS_TIMEOUT_MS == 10000
\* The retry delays, in ms: STTService.retryDelay, RETRY_DELAY_MS of the
\* Gemini service, TTSService.retryDelay.
STT_RETRY_DELAY_MS == 1000
RETRY_DELAY_MS == 1000
TTS_RETRY_DELAY_MS == 1000

\* a promise that resolves at once
delay_Immediate(ms) == 0

\* new Promise(resolve => setTimeout(resolve, ms)): the time, in ms, after
\* which the awaiting code goes on
delay(ms) == ms

\* The time a provider takes to answer, in ms.
Latencies == {1000, 20000, 40000}

\* The outcome of one attempt of a remote call; remote is FALSE when the
\* attempt failed before the provider was contacted; elapsed is the time the
\* attempt took, in ms.
Ok(value) ==
    [ok |-> TRUE, kind |-> "ok", value |-> value, remote |-> TRUE, elapsed |-> 0]
Fail(kind) ==
    [ok |-> FALSE, kind |-> kind, value |-> << >>, remote |-> TRUE, elapsed |-> 0]
LocalFail(kind) ==
    [ok |-> FALSE, kind |-> kind, value |-> << >>, remote |-> FALSE, elapsed |-> 0]
\* A reply the attempt accepts although it does not hold what was asked for:
\* a transcription reply without text (response.data.text || '' gives ''),
\* a synthesis reply with an empty body.
Malformed ==
    [ok |-> TRUE, kind |-> "malformed", value |-> << >>, remote |-> TRUE,
     elapsed |-> 0]

\* One attempt under its timeout: the provider's answer when it arrives in
\* time, a timeout failure when the timeout fires first.
attemptOutcome(answer, latency, timeout) ==
    IF latency > timeout
    THEN [Fail("timeout") EXCEPT !.elapsed = timeout]
    ELSE [answer EXCEPT !.elapsed = latency]

\* The entry a reasoning or synthesis attempt leaves in a request's history
\* of attempts: the error of a failed attempt is logged and dropped.
Attempt(o) == [ok |-> o.ok, value |-> o.value, remote |-> o.remote]

\* The entry a transcription attempt leaves: error is the kind of Error that
\* attemptTranscribe threw ("ok" when it returned).
SttAttempt(o) == [ok |-> o.ok, value |-> o.value, remote |-> o.remote, error |-> o.kind]

\* what a provider answers when it answers
SttAnswers == {Ok(t) : t \in SttTexts} \cup {Fail(k) : k \in SttFailures \ {"timeout"}}
LlmAnswers == {Ok(t) : t \in LlmTexts} \cup {Fail(k) : k \in LlmFailures \ {"timeout"}}
TtsAnswers == {Ok(a) : a \in TtsAudio} \cup {Fail(k) : k \in TtsFailures \ {"timeout"}}

SttOutcomes ==
    {attemptOutcome(a, l, STT_TIMEOUT_MS) : a \in SttAnswers, l \in Latencies}
LlmOutcomes ==
    {attemptOutcome(a, l, GEMINI_TIMEOUT_MS) : a \in LlmAnswers, l \in Latencies}
TtsOutcomes ==
    {attemptOutcome(a, l, TTS_TIMEOUT_MS) : a \in TtsAnswers, l \in Latencies}

\* the same with the replies that are accepted although malformed
SttOutcomesAll ==
    {attemptOutcome(a, l, STT_TIMEOUT_MS) :
        a \in SttAnswers \cup {Malformed}, l \in Latencies}
LlmOutcomesAll == LlmOutcomes
TtsOutcomesAll ==
    {attemptOutcome(a, l, TTS_TIMEOUT_MS) :
        a \in TtsAnswers \cup {Malformed}, l \in Latencies}

(***************************************************************************)
(* Responses: routes/debug.ts                                              *)
(***************************************************************************)
NoResponse == [status |-> 0, body |-> [pending |-> TRUE]]

validationResponse ==
    [status |-> 400,
     body |-> [error |-> "ValidationError", message |-> MSG_VALIDATION,
               statusCode |-> 400]]

\* the catch block: the status is chosen by searching the error message
errorResponse(errorMessage) ==
    IF Includes(errorMessage, NEEDLE_TIMEOUT)
    THEN [status |-> 504,
          body |-> [error |-> "TimeoutError", message |-> errorMessage,
                    statusCode |-> 504]]
    ELSE IF Includes(errorMessage, NEEDLE_API)
    THEN [status |-> 503,
          body |-> [error |-> "ServiceUnavailable", message |-> errorMessage,
                    statusCode |-> 503]]
    ELSE [status |-> 500,
          body |-> [error |-> "InternalServerError", message |-> errorMessage,
                    statusCode |-> 500]]

\* the payload sent without the data-URL prefix
audioUrlOf_NoPrefix(audioBase64) ==
    IF Truthy(audioBase64) THEN audioBase64 ELSE << >>

audioUrlOf(audioBase64) ==
    IF Truthy(audioBase64) THEN DATA_URL_PREFIX \o audioBase64 ELSE << >>

successResponse(aiResponse, audioBase64) ==
    [status |-> 200,
     body |-> [textResponse |-> aiResponse, audioUrl |-> audioUrlOf(audioBase64)]]

(***************************************************************************)
(* Responses: index.ts                                                     *)
(***************************************************************************)
\* The errors that express passes to the error-handling middleware: the
\* JSON body parser rejects a body that is not JSON, or one above its 10mb
\* limit. statusCode 0 stands for an error without a statusCode property.
MiddlewareErrors ==
    { [name |-> "SyntaxError", message |-> << "Unexpected token in JSON" >>,
       statusCode |-> 400, stack |-> << "SyntaxError: at parse" >>],
      [name |-> "PayloadTooLargeError", message |-> << "request entity too large" >>,
       statusCode |-> 413, stack |-> << "PayloadTooLargeError: at readStream" >>] }

\* the stack sent whatever NODE_ENV is
middlewareResponse_AlwaysStack(err, dev) ==
    [status |-> err.statusCode,
     body |-> [error |-> err.name, message |-> err.message,
               statusCode |-> err.statusCode, stack |-> err.stack]]

\* the error-handling middleware: err.statusCode || 500, err.name ||
\* 'InternalServerError', err.message || 'An unexpected error occurred', and
\* the stack when NODE_ENV is 'development'
middlewareResponse(err, dev) ==
    LET statusCode == IF err.statusCode # 0 THEN err.statusCode ELSE 500
        name == IF err.name # "" THEN err.name ELSE "InternalServerError"
        message == IF Truthy(err.message) THEN err.message
                   ELSE << "An unexpected error occurred" >>
    IN  [status |-> statusCode,
         body |-> IF dev
                  THEN [error |-> name, message |-> message,
                        statusCode |-> statusCode, stack |-> err.stack]
                  ELSE [error |-> name, message |-> message,
                        statusCode |-> statusCode]]

\* the 404 handler for unknown routes
notFoundResponse(method, path) ==
    [status |-> 404,
     body |-> [error |-> "NotFound",
               message |-> << "Route ", method, " ", path, " not found" >>,
               statusCode |-> 404]]

(***************************************************************************)
(* The three services: what a call returns once its attempts are over.     *)
(* attempts is the history of the call's attempts, the last one first      *)
(* failed or succeeded.                                                    *)
(***************************************************************************)
Last(seq) == seq[Len(seq)]

\* A failed attempt is followed by the retry delay and a second attempt
\* exactly when it was the first attempt of the call.
\* no retry after a timeout
sttRetries_NotOnTimeout(attempts) ==
    Len(attempts) = 1 /\ attempts[1].error # "timeout"
sttRetries(attempts) == Len(attempts) = 1
SYSTEM_PROMPT == "You are a senior software engineer acting as a rubber duck debugger."

\* the prompt built from the 20 most recent turns only
constructPrompt_LastTwenty(userInput, conversationHistory) ==
    LET recent == SliceLast(conversationHistory, MAX_TURNS)
    IN  << << SYSTEM_PROMPT, "\n\n" >> >>
        \o (IF Len(recent) > 0
            THEN << << "Previous conversation:\n" >> >>
                 \o [i \in 1..(2 * Len(recent)) |->
                       IF i % 2 = 1
                       THEN << "User: ", recent[(i + 1) \div 2].input, "\n" >>
                       ELSE << "Assistant: ", recent[i \div 2].output, "\n\n" >>]
            ELSE << >>)
        \o << << "User: ", userInput, "\n" >>, << "Assistant:" >> >>

\* GeminiService.constructPrompt: the prompt as the sequence of the pieces
\* the code concatenates
constructPrompt(userInput, conversationHistory) ==
    << << SYSTEM_PROMPT, "\n\n" >> >>
    \o (IF Len(conversationHistory) > 0
        THEN << << "Previous conversation:\n" >> >>
             \o [i \in 1..(2 * Len(conversationHistory)) |->
                   IF i % 2 = 1
                   THEN << "User: ", conversationHistory[(i + 1) \div 2].input, "\n" >>
                   ELSE << "Assistant: ", conversationHistory[i \div 2].output, "\n\n" >>]
        ELSE << >>)
    \o << << "User: ", userInput, "\n" >>, << "Assistant:" >> >>

\* a retry after every failure
llmRetries_Always(attempts) == TRUE
llmRetries(attempts) == Len(attempts) = 1
ttsRetries(attempts) == Len(attempts) = 1

\* the message of the Error a failed attemptTranscribe throws
attemptErrorMessage(attempt) ==
    IF attempt.error = "tooShort" THEN MSG_STT_TOO_SHORT
    ELSE IF attempt.error = "timeout" THEN MSG_STT_TIMEOUT
    ELSE MSG_STT_API_ERROR

\* the error of the retry thrown on in place of the fixed message
sttReturn_RethrowsRetryError(attempts) ==
    IF Last(attempts).ok
    THEN [threw |-> FALSE, value |-> Last(attempts).value]
    ELSE [threw |-> TRUE, value |-> attemptErrorMessage(Last(attempts))]

\* STTService.transcribe: the text of the successful attempt, or a throw
\* of the fixed message, whatever the two attempts threw
sttReturn(attempts) ==
    IF Last(attempts).ok
    THEN [threw |-> FALSE, value |-> Last(attempts).value]
    ELSE [threw |-> TRUE, value |-> MSG_STT_TERMINAL]

\* an empty reply in place of the fallback text
geminiTerminalText_Empty == << >>

\* GeminiService.generateResponse after both attempts failed
geminiTerminalText == FALLBACK_TEXT

\* the result of the retry ignored
llmReturn_FirstOnly(attempts) ==
    IF attempts[1].ok THEN attempts[1].value ELSE geminiTerminalText

\* GeminiService.generateResponse: the text of the successful attempt, or
\* the fallback text; it never throws
llmReturn(attempts) ==
    IF Last(attempts).ok THEN Last(attempts).value ELSE geminiTerminalText

\* TTSService.synthesize: the audio of the successful attempt, base64
\* encoded; after both attempts failed, the text itself, base64 encoded
ttsReturn(attempts, text) ==
    IF Last(attempts).ok
    THEN [threw |-> FALSE, value |-> Base64(Last(attempts).value)]
    ELSE [threw |-> FALSE, value |-> Base64(text)]

\* TTSService.synthesize without an API key: throws before any attempt
ttsNotConfigured == [threw |-> TRUE, value |-> << "TTS_NOT_CONFIGURED" >>]

(***************************************************************************)
(* One request of POST /debug/voice                                        *)
(***************************************************************************)
NoAudio == [given |-> FALSE, bytes |-> 0]

IdleRequest ==
    [pc |-> "Idle", userId |-> "", audio |-> NoAudio,
     transcribedText |-> NULL,       \* const transcribedText
     conversationHistory |-> << >>,  \* const conversationHistory (an array reference)
     live |-> FALSE,                 \* conversationHistory is still the session's array
     prompt |-> NULL,                \* const prompt of the reasoning attempt under way
     aiResponse |-> NULL,            \* const aiResponse
     audioBase64 |-> NULL,           \* let audioBase64
     synthText |-> NULL,             \* history: the text synthesize() was called with
     stt |-> << >>, llm |-> << >>, tts |-> << >>,  \* history: the attempts made
     waited |-> << >>,               \* history: the retry delays awaited
     persisted |-> << >>,            \* history: what this request appended
     response |-> NoResponse]

\* validation that looks at the audio only
missingParameters_AudioOnly(audio, userId) == ~audio.given

\* debug.ts validation: !audio || !userId
missingParameters(audio, userId) == ~audio.given \/ userId = ""

\* the request once the handler has answered with an error
answerError(q, message) ==
    [q EXCEPT !.pc = "Done", !.live = FALSE, !.conversationHistory = << >>,
              !.response = errorResponse(message)]

\* attemptTranscribe's first check, before the provider is contacted
audioTooShort(audio) == audio.bytes < MIN_AUDIO_BYTES

\* Every holder of the session's array sees a push; the slice that enforces
\* the limit gives the session a new array and leaves the holders the old one.
seePush(y, userId, pushed) ==
    IF y.live /\ y.userId = userId
    THEN [y EXCEPT !.conversationHistory = pushed,
                   !.live = (Len(pushed) <= MAX_TURNS)]
    ELSE y

\* Holders of the array of a deleted session keep the array as it is.
seeDelete(y, kept) ==
    IF y.live /\ y.userId \notin kept THEN [y EXCEPT !.live = FALSE] ELSE y

lengthOf(S, userId) ==
    IF userId \in DOMAIN S THEN Len(S[userId].conversation) ELSE 0

\* a "reset the session on error" handler
Failing_ResetsSession(r, q, message) ==
    LET kept == (DOMAIN sessions) \ {q.userId}
    IN  /\ sessions' = MapKeep(sessions, kept)
        /\ appendLog' = [appendLog EXCEPT ![q.userId] = << >>]
        /\ req' = [x \in Slots |->
                     IF x = r THEN answerError(q, message)
                     ELSE seeDelete(req[x], kept)]

\* a handler without the catch block: the rejection is left unanswered
Failing_Unanswered(r, q, message) ==
    /\ req' = [req EXCEPT ![r] = [q EXCEPT !.pc = "Rejected"]]
    /\ UNCHANGED << sessions, appendLog >>

\* a catch block that reads the session of the request
Failing_TouchesSession(r, q, message) ==
    /\ req' = [req EXCEPT ![r] = answerError(q, message)]
    /\ sessions' = getSession(sessions, q.userId, now)
    /\ UNCHANGED appendLog

\* debug.ts catch block: log, choose the status, answer
Failing(r, q, message) ==
    /\ req' = [req EXCEPT ![r] = answerError(q, message)]
    /\ UNCHANGED << sessions, appendLog >>

\* the arguments of updateSession exchanged
turnOf_Swapped(q, t) == ConversationTurn(q.aiResponse, q.transcribedText, t)

\* the turn the handler stores: sessionManager.updateSession(userId,
\* transcribedText, aiResponse)
turnOf(q, t) == ConversationTurn(q.transcribedText, q.aiResponse, t)

\* debug.ts steps 5 and 6: store the turn, build and send the response
Persisting(r, q) ==
    LET u == q.userId
        turn == turnOf(q, now)
        pushed == pushTurn(sessions, u, turn.input, turn.output, now)
        S2 == updateSession(sessions, u, turn.input, turn.output, now)
        done == [q EXCEPT
                   !.pc = "Done", !.live = FALSE, !.conversationHistory = << >>,
                   !.persisted = << [lenBefore |-> lengthOf(sessions, u),
                                     lenAfter |-> lengthOf(S2, u),
                                     last |-> Last(S2[u].conversation)] >>,
                   !.response = successResponse(q.aiResponse, q.audioBase64)]
    IN  /\ sessions' = S2
        /\ appendLog' = [appendLog EXCEPT ![u] = Append(@, turn)]
        /\ req' = [x \in Slots |->
                     IF x = r THEN done ELSE seePush(req[x], u, pushed)]

\* a handler without the try/catch around a synthesize that reports its
\* failure
afterSynthesis_Aborts(r, q, result) ==
    IF result.threw \/ ~Last(q.tts).ok
    THEN Failing(r, q, << "Failed to generate audio response. Please try again." >>)
    ELSE Persisting(r, [q EXCEPT !.audioBase64 = result.value])

\* debug.ts step 4, once synthesize has returned or thrown: a throw is
\* caught and leaves audioBase64 null; then steps 5 and 6
afterSynthesis(r, q, result) ==
    IF result.threw
    THEN Persisting(r, [q EXCEPT !.audioBase64 = NULL])
    ELSE Persisting(r, [q EXCEPT !.audioBase64 = result.value])

\* the turn stored and the response sent without calling synthesize
Synthesizing_Skipped(r, q) == Persisting(r, q)

\* debug.ts step 4: getTtsService().synthesize(aiResponse, userId) is called;
\* with an API key the first attempt starts
Synthesizing(r, q) ==
    LET q1 == [q EXCEPT !.synthText = q.aiResponse]
    IN  IF elevenLabsKey
        THEN /\ req' = [req EXCEPT ![r] = [q1 EXCEPT !.pc = "Synthesizing"]]
             /\ UNCHANGED << sessions, appendLog >>
        ELSE afterSynthesis(r, q1, ttsNotConfigured)

\* debug.ts steps 2 and 3: read the session, start generateResponse
Contextualizing(r, q) ==
    LET u == q.userId
        S1 == getSession(sessions, u, now)
    IN  /\ sessions' = S1
        /\ req' = [req EXCEPT ![r] =
                     [q EXCEPT !.conversationHistory = S1[u].conversation,
                               !.live = TRUE, !.pc = "Reasoning",
                               !.prompt = constructPrompt(q.transcribedText,
                                                          S1[u].conversation)]]
        /\ UNCHANGED appendLog

\* debug.ts step 1, once transcribe has returned or thrown
afterTranscription(r, q, result) ==
    IF result.threw
    THEN Failing(r, q, result.value)
    ELSE Contextualizing(r, [q EXCEPT !.transcribedText = result.value])

(***************************************************************************)
(* Actions of the handler                                                  *)
(***************************************************************************)
\* a request arrives: validation, getSttService(), first transcription attempt
Receive(r, audio, userId) ==
    /\ req[r].pc = "Idle"
    /\ r = received + 1
    /\ received' = received + 1
    /\ LET q == [IdleRequest EXCEPT !.userId = userId, !.audio = audio]
       IN  IF missingParameters(audio, userId)
           THEN /\ req' = [req EXCEPT ![r] =
                             [q EXCEPT !.pc = "Done",
                                       !.response = validationResponse]]
                /\ UNCHANGED << sessions, appendLog >>
           ELSE IF ~elevenLabsKey
           THEN Failing(r, q, MSG_STT_KEY)
           ELSE /\ req' = [req EXCEPT ![r] =
                             IF audioTooShort(audio)
                             THEN [q EXCEPT
                                     !.pc = "SttDelay",
                                     !.stt = << SttAttempt(LocalFail("tooShort")) >>]
                             ELSE [q EXCEPT !.pc = "Transcribing"]]
                /\ UNCHANGED << sessions, appendLog >>
    /\ UNCHANGED << now, elevenLabsKey, development, ui, faults, storeCalls >>

\* the provider answers a transcription attempt
SttAttemptDone(r, o) ==
    /\ req[r].pc = "Transcribing"
    /\ o \in SttOutcomesAll
    /\ o.ok \/ faults < MaxFaults
    /\ faults' = IF o.ok THEN faults ELSE faults + 1
    /\ LET q == [req[r] EXCEPT !.stt = Append(@, SttAttempt(o))]
       IN  IF ~o.ok /\ sttRetries(q.stt)
           THEN /\ req' = [req EXCEPT ![r] = [q EXCEPT !.pc = "SttDelay"]]
                /\ UNCHANGED << sessions, appendLog >>
           ELSE afterTranscription(r, q, sttReturn(q.stt))
    /\ UNCHANGED << now, elevenLabsKey, development, ui, received, storeCalls >>

\* the retry delay of transcribe() has elapsed: second attempt
SttDelayDone(r) ==
    /\ req[r].pc = "SttDelay"
    /\ LET w == [call |-> "stt", ms |-> delay(STT_RETRY_DELAY_MS)]
       IN  IF audioTooShort(req[r].audio)
           THEN LET q == [req[r] EXCEPT
                            !.waited = Append(@, w),
                            !.stt = Append(@, SttAttempt(LocalFail("tooShort")))]
                IN  afterTranscription(r, q, sttReturn(q.stt))
           ELSE /\ req' = [req EXCEPT ![r].pc = "Transcribing",
                                      ![r].waited = Append(@, w)]
                /\ UNCHANGED << sessions, appendLog >>
    /\ UNCHANGED << now, elevenLabsKey, development, ui, received, faults, storeCalls >>

\* the provider answers a reasoning attempt (or the attempt times out)
LlmAttemptDone(r, o) ==
    /\ req[r].pc = "Reasoning"
    /\ o \in LlmOutcomesAll
    /\ o.ok \/ faults < MaxFaults
    /\ faults' = IF o.ok THEN faults ELSE faults + 1
    /\ LET q == [req[r] EXCEPT !.llm = Append(@, Attempt(o))]
       IN  IF ~o.ok /\ llmRetries(q.llm)
           THEN /\ req' = [req EXCEPT ![r] = [q EXCEPT !.pc = "LlmDelay"]]
                /\ UNCHANGED << sessions, appendLog >>
           ELSE Synthesizing(r, [q EXCEPT !.aiResponse = llmReturn(q.llm),
                                          !.prompt = NULL])
    /\ UNCHANGED << now, elevenLabsKey, development, ui, received, storeCalls >>

\* the retry delay of generateResponse() has elapsed: second attempt
LlmDelayDone(r) ==
    /\ req[r].pc = "LlmDelay"
    /\ req' = [req EXCEPT
                 ![r].pc = "Reasoning",
                 ![r].waited = Append(@, [call |-> "llm", ms |-> delay(RETRY_DELAY_MS)]),
                 ![r].prompt = constructPrompt(req[r].transcribedText,
                                               req[r].conversationHistory)]
    /\ UNCHANGED << sessions, now, elevenLabsKey, development, ui, received, faults, appendLog,
                    storeCalls >>

\* the provider answers a synthesis attempt
TtsAttemptDone(r, o) ==
    /\ req[r].pc = "Synthesizing"
    /\ o \in TtsOutcomesAll
    /\ o.ok \/ faults < MaxFaults
    /\ faults' = IF o.ok THEN faults ELSE faults + 1
    /\ LET q == [req[r] EXCEPT !.tts = Append(@, Attempt(o))]
       IN  IF ~o.ok /\ ttsRetries(q.tts)
           THEN /\ req' = [req EXCEPT ![r] = [q EXCEPT !.pc = "TtsDelay"]]
                /\ UNCHANGED << sessions, appendLog >>
           ELSE afterSynthesis(r, q, ttsReturn(q.tts, q.synthText))
    /\ UNCHANGED << now, elevenLabsKey, development, ui, received, storeCalls >>

\* the retry delay of synthesize() has elapsed: second attempt
TtsDelayDone(r) ==
    /\ req[r].pc = "TtsDelay"
    /\ req' = [req EXCEPT
                 ![r].pc = "Synthesizing",
                 ![r].waited = Append(@, [call |-> "tts", ms |-> delay(TTS_RETRY_DELAY_MS)])]
    /\ UNCHANGED << sessions, now, elevenLabsKey, development, ui, received, faults, appendLog,
                    storeCalls >>

(***************************************************************************)
(* Requests that never reach the handler: index.ts                         *)
(***************************************************************************)
\* express.json() rejects the body of a request: the error-handling
\* middleware answers
RejectBody(r, err) ==
    /\ req[r].pc = "Idle"
    /\ r = received + 1
    /\ received' = received + 1
    /\ req' = [req EXCEPT ![r] =
                 [IdleRequest EXCEPT
                    !.pc = "Done",
                    !.response = middlewareResponse(err, development)]]
    /\ UNCHANGED << sessions, now, elevenLabsKey, development, ui, faults, appendLog,
                    storeCalls >>

\* a request for a route the server does not have: the 404 handler answers
UnknownRoute(r) ==
    /\ req[r].pc = "Idle"
    /\ r = received + 1
    /\ received' = received + 1
    /\ req' = [req EXCEPT ![r] =
                 [IdleRequest EXCEPT
                    !.pc = "Done",
                    !.response = notFoundResponse("POST", "/debug/text")]]
    /\ UNCHANGED << sessions, now, elevenLabsKey, development, ui, faults, appendLog,
                    storeCalls >>

(***************************************************************************)
(* Timer and clock                                                         *)
(***************************************************************************)
\* the setInterval callback of startCleanupTimer
Sweep ==
    /\ sessions' = cleanupSessions(sessions, now)
    /\ sessions' # sessions
    /\ req' = [x \in Slots |-> seeDelete(req[x], DOMAIN sessions')]
    /\ appendLog' = [u \in Users |->
                       IF u \in DOMAIN sessions' THEN appendLog[u] ELSE << >>]
    /\ UNCHANGED << now, elevenLabsKey, development, ui, received, faults, storeCalls >>

Tick ==
    /\ now < MaxClock
    /\ now' = now + 1
    /\ UNCHANGED << sessions, elevenLabsKey, development, ui, req, received, faults, appendLog,
                    storeCalls >>

(***************************************************************************)
(* Direct calls of the store's public methods                              *)
(***************************************************************************)
StoreInputs == { << "input-a" >>, << "input-b" >> }
StoreOutputs == { << "output-a" >> }

GetSessionCall(userId) ==
    /\ sessions' = getSession(sessions, userId, now)
    /\ sessions' # sessions
    /\ UNCHANGED << now, elevenLabsKey, development, ui, req, received, faults, appendLog,
                    storeCalls >>

UpdateSessionCall(userId, input, output) ==
    /\ storeCalls < MaxStoreCalls
    /\ storeCalls' = storeCalls + 1
    /\ sessions' = updateSession(sessions, userId, input, output, now)
    /\ appendLog' = [appendLog EXCEPT
                       ![userId] = Append(@, ConversationTurn(input, output, now))]
    /\ UNCHANGED << now, elevenLabsKey, development, ui, req, received, faults >>

ClearAllSessionsCall ==
    /\ sessions # clearAllSessions(sessions)
    /\ sessions' = clearAllSessions(sessions)
    /\ appendLog' = [u \in Users |-> << >>]
    /\ UNCHANGED << now, elevenLabsKey, development, ui, req, received, faults, storeCalls >>

(***************************************************************************)
(* The browser: App.tsx, AudioRecorder.tsx, services/apiClient.ts          *)
(***************************************************************************)
MaxSubmissions == 2
MaxTimers == 2

\* 10 * 1024 * 1024
MAX_FILE_SIZE == 10485760
\* express.json({ limit: '10mb' })
BODY_LIMIT_BYTES == 10485760
\* DEFAULT_CONFIG.timeout of the API client
CLIENT_TIMEOUT_MS == 60000
\* `user_${Date.now()}_${Math.random().toString(36).substring(2, 9)}`
USER_ID_LENGTH == 26

\* the sizes, in bytes, of the Blob a recording ends with
BlobSizes == {0, 999, 7000000, MAX_FILE_SIZE, MAX_FILE_SIZE + 1}

\* the length of the base64 text FileReader.readAsDataURL gives for n bytes
base64Length(n) == 4 * ((n + 2) \div 3)

\* the length of JSON.stringify({ audio, userId })
jsonBodyLength(audioLength, userIdLength) ==
    10 + audioLength + 12 + userIdLength + 2

\* The attempts of one remote call: the first attempt, and the retry after
\* a first attempt that failed.
RunsOf(outcomes) ==
    {<< o >> : o \in {x \in outcomes : x.ok}}
    \cup {<< o1, o2 >> : o1 \in {x \in outcomes : ~x.ok}, o2 \in outcomes}

\* the time a remote call with these attempts takes
callTime(run, retryDelay) ==
    run[1].elapsed
    + (IF Len(run) = 2 THEN delay(retryDelay) + run[2].elapsed ELSE 0)

\* The handler of POST /debug/voice from the transcription on, as a function
\* of what the providers do: the time it takes and the response it sends.
processRequest(s, l, t) ==
    LET stt == [i \in 1..Len(s) |-> SttAttempt(s[i])]
        llm == [i \in 1..Len(l) |-> Attempt(l[i])]
        tts == [i \in 1..Len(t) |-> Attempt(t[i])]
        transcribed == sttReturn(stt)
        aiResponse == llmReturn(llm)
        synthesized == ttsReturn(tts, aiResponse)
    IN  IF transcribed.threw
        THEN [duration |-> callTime(s, STT_RETRY_DELAY_MS),
              response |-> errorResponse(transcribed.value)]
        ELSE [duration |-> callTime(s, STT_RETRY_DELAY_MS)
                           + callTime(l, RETRY_DELAY_MS)
                           + callTime(t, TTS_RETRY_DELAY_MS),
              response |-> successResponse(aiResponse,
                              IF synthesized.threw THEN NULL
                              ELSE synthesized.value)]

FullRuns ==
    {processRequest(s, l, t) :
        s \in RunsOf(SttOutcomes), l \in RunsOf(LlmOutcomes),
        t \in RunsOf(TtsOutcomesAll)}
ShortRuns ==
    {processRequest(<< LocalFail("tooShort"), LocalFail("tooShort") >>, l, t) :
        l \in RunsOf(LlmOutcomes), t \in RunsOf(TtsOutcomesAll)}

\* What the server does with the request for a recording of `size` bytes:
\* the body parser rejects it, or the handler answers it.
backendAnswers(size) ==
    LET audio == [given |-> size > 0, bytes |-> size]
    IN  IF jsonBodyLength(base64Length(size), USER_ID_LENGTH) > BODY_LIMIT_BYTES
        THEN {[duration |-> 0,
               response |->
                  middlewareResponse(
                     CHOOSE e \in MiddlewareErrors : e.statusCode = 413,
                     development)]}
        ELSE IF missingParameters(audio, "u1")
        THEN {[duration |-> 0, response |-> validationResponse]}
        ELSE IF ~elevenLabsKey
        THEN {[duration |-> 0, response |-> errorResponse(MSG_STT_KEY)]}
        ELSE IF audioTooShort(audio) THEN ShortRuns
        ELSE FullRuns

\* ApiClient.submitAudio, given what the server does with the request: the
\* AbortController fires after the timeout; an error response is thrown as
\* an ApiError; a success response is validated and returned.
submitAudio(answer) ==
    LET body == answer.response.body
    IN  IF answer.duration > CLIENT_TIMEOUT_MS
        THEN [threw |-> TRUE, error |-> "TimeoutError", statusCode |-> 504,
              message |-> << "Request timed out. Please try again." >>,
              data |-> NULL]
        ELSE IF ~(answer.response.status \in 200..299)
        THEN [threw |-> TRUE, error |-> body.error,
              statusCode |-> body.statusCode, message |-> body.message,
              data |-> NULL]
        ELSE IF ~Truthy(body.textResponse) \/ ~Truthy(body.audioUrl)
        THEN [threw |-> TRUE, error |-> "InvalidResponse", statusCode |-> 500,
              message |->
                 << "Invalid response format: missing textResponse or audioUrl" >>,
              data |-> NULL]
        ELSE [threw |-> FALSE, error |-> "none", statusCode |-> 200,
              message |-> << >>, data |-> body]

\* the App component after mounting
InitialUi ==
    [status |-> "ready",        \* currentStatus
     errorMessage |-> << >>,    \* errorMessage
     currentAudioUrl |-> << >>, \* currentAudioUrl
     turns |-> 0,               \* conversationHistory.length
     isRecording |-> FALSE,     \* AudioRecorder's isRecording
     playing |-> FALSE,         \* the audio element is playing
     inFlight |-> << >>,        \* the recordings submitted and not yet answered
     timers |-> 0,              \* pending setTimeout callbacks of handleError
     submitted |-> 0,           \* history: number of submissions so far
     lastResult |-> [backendStatus |-> 0, error |-> "none"]]
                                \* history: the last answer and what the client made of it

updateStatus(u, newStatus, error) ==
    [u EXCEPT
       !.status = newStatus,
       !.errorMessage =
          IF newStatus = "error" /\ Truthy(error) THEN error
          ELSE IF newStatus # "error" THEN << >>
          ELSE @]

\* status 'error' and a timer that will set 'ready' in 5000 ms
handleError(u, error) ==
    [updateStatus(u, "error", error) EXCEPT !.timers = @ + 1]

Remove(seq, i) == SubSeq(seq, 1, i - 1) \o SubSeq(seq, i + 1, Len(seq))

\* a click on the button while not recording: getUserMedia is granted and
\* the recording starts, or it is refused
StartRecording(granted) ==
    /\ ~ui.isRecording
    /\ granted \/ ui.timers < MaxTimers
    /\ ui' = IF granted
             THEN [updateStatus(ui, "listening", << >>) EXCEPT !.isRecording = TRUE]
             ELSE handleError(ui, << "Microphone access denied." >>)
    /\ UNCHANGED << sessions, now, elevenLabsKey, development, req, received,
                    faults, appendLog, storeCalls >>

\* a click on the button while recording: mediaRecorder.onstop checks the
\* size, converts the Blob and hands it to handleAudioSubmit, which sets
\* 'thinking' and sends the request
StopRecording(size, readable) ==
    /\ ui.isRecording
    /\ LET stopped == [ui EXCEPT !.isRecording = FALSE]
       IN  IF size > MAX_FILE_SIZE
           THEN /\ ui.timers < MaxTimers
                /\ ui' = handleError(stopped, << "Audio file exceeds 10MB limit." >>)
           ELSE IF ~readable
           THEN /\ ui.timers < MaxTimers
                /\ ui' = handleError(stopped, << "Failed to process audio recording." >>)
           ELSE /\ ui.submitted < MaxSubmissions
                /\ ui' = [updateStatus(stopped, "thinking", << >>) EXCEPT
                            !.inFlight = Append(@, size),
                            !.submitted = @ + 1]
    /\ UNCHANGED << sessions, now, elevenLabsKey, development, req, received,
                    faults, appendLog, storeCalls >>

\* the await of submitAudio in handleAudioSubmit ends: the turn is shown and
\* played, or the error is shown
ResponseArrives(i, answer) ==
    /\ i \in 1..Len(ui.inFlight)
    /\ answer \in backendAnswers(ui.inFlight[i])
    /\ LET result == submitAudio(answer)
           u1 == [ui EXCEPT
                    !.inFlight = Remove(@, i),
                    !.lastResult = [backendStatus |-> answer.response.status,
                                    error |-> result.error]]
       IN  IF result.threw
           THEN /\ ui.timers < MaxTimers
                /\ ui' = handleError(u1, result.message)
           ELSE ui' = [updateStatus(u1, "playing", << >>) EXCEPT
                         !.turns = @ + 1,
                         !.currentAudioUrl = result.data.audioUrl,
                         !.playing = TRUE]
    /\ UNCHANGED << sessions, now, elevenLabsKey, development, req, received,
                    faults, appendLog, storeCalls >>

\* a timer set by handleError fires
ResetTimerFires ==
    /\ ui.timers > 0
    /\ ui' = [updateStatus(ui, "ready", << >>) EXCEPT !.timers = @ - 1]
    /\ UNCHANGED << sessions, now, elevenLabsKey, development, req, received,
                    faults, appendLog, storeCalls >>

\* the audio element's 'ended' event
PlaybackComplete ==
    /\ ui.playing
    /\ ui' = [updateStatus(ui, "ready", << >>) EXCEPT !.playing = FALSE]
    /\ UNCHANGED << sessions, now, elevenLabsKey, development, req, received,
                    faults, appendLog, storeCalls >>

\* the audio element's 'error' event
PlaybackError ==
    /\ ui.playing
    /\ ui.timers < MaxTimers
    /\ ui' = [handleError(ui, << "Failed to play audio response." >>) EXCEPT
                !.playing = FALSE]
    /\ UNCHANGED << sessions, now, elevenLabsKey, development, req, received,
                    faults, appendLog, storeCalls >>

(***************************************************************************)
(* Specifications                                                          *)
(***************************************************************************)
NoSessions == [u \in {} |-> 0]

\* A session the program holds after SeedLength successful requests of "u1"
\* that were all answered before the first clock tick.
SeedLength == 19
SeedConversation ==
    [i \in 1..SeedLength |->
       ConversationTurn(<< "earlier input", ToString(i) >>,
                        << "earlier reply", ToString(i) >>, 0)]
InitCommon ==
    /\ now = 0
    /\ req = [r \in Slots |-> IdleRequest]
    /\ received = 0
    /\ faults = 0
    /\ storeCalls = 0
    /\ ui = InitialUi
    /\ appendLog = [u \in Users |->
                      IF u \in DOMAIN sessions THEN sessions[u].conversation
                      ELSE << >>]

\* The stores the specifications start from: the one just constructed, and
\* the one that holds the seeded session.
InitialStores ==
    { NoSessions,
      [createSession(NoSessions, "u1", 0)
         EXCEPT !["u1"].conversation = SeedConversation] }

\* The handler of POST /debug/voice in the server after start-up. The
\* handler does not read NODE_ENV; the Dockerfile sets it to production.
Init ==
    /\ elevenLabsKey \in BOOLEAN
    /\ development = FALSE
    /\ sessions \in InitialStores
    /\ InitCommon

Next ==
    \/ \E r \in Slots, a \in Audios, u \in UserIds : Receive(r, a, u)
    \/ \E r \in Slots, o \in SttOutcomes : SttAttemptDone(r, o)
    \/ \E r \in Slots : SttDelayDone(r)
    \/ \E r \in Slots, o \in LlmOutcomes : LlmAttemptDone(r, o)
    \/ \E r \in Slots : LlmDelayDone(r)
    \/ \E r \in Slots, o \in TtsOutcomes : TtsAttemptDone(r, o)
    \/ \E r \in Slots : TtsDelayDone(r)
    \/ Sweep
    \/ Tick

Spec == Init /\ [][Next]_vars

\* A SessionManager driven through its public methods.
InitStore ==
    /\ elevenLabsKey = TRUE
    /\ development = FALSE
    /\ sessions \in InitialStores
    /\ InitCommon

NextStore ==
    \/ \E u \in Users : GetSessionCall(u)
    \/ \E u \in Users, i \in StoreInputs, o \in StoreOutputs :
          UpdateSessionCall(u, i, o)
    \/ Sweep
    \/ ClearAllSessionsCall
    \/ Tick

SpecStore == InitStore /\ [][NextStore]_vars

\* The store as time passes: the clock advances, and the interval timer the
\* constructor sets fires again and again (the server never calls
\* stopCleanupTimer, and no handler blocks the event loop). The calls of the
\* public methods may come or not.
SpecTimer == InitStore /\ [][NextStore]_vars /\ WF_vars(Tick) /\ WF_vars(Sweep)

\* The handler when every attempt of a remote call ends (the provider
\* answers, the connection fails or the attempt's timeout fires) and every
\* retry delay elapses: a request that can take a step eventually takes one.
Progress(r) ==
    \/ \E o \in SttOutcomes : SttAttemptDone(r, o)
    \/ SttDelayDone(r)
    \/ \E o \in LlmOutcomes : LlmAttemptDone(r, o)
    \/ LlmDelayDone(r)
    \/ \E o \in TtsOutcomes : TtsAttemptDone(r, o)
    \/ TtsDelayDone(r)

InitLive ==
    /\ elevenLabsKey \in BOOLEAN
    /\ development = FALSE
    /\ sessions = NoSessions
    /\ InitCommon

\* The clock and the cleanup timer take no part: no step of a request waits
\* for them.
NextLive ==
    \/ \E r \in Slots, a \in Audios, u \in UserIds : Receive(r, a, u)
    \/ \E r \in Slots : Progress(r)

SpecLive ==
    InitLive /\ [][NextLive]_vars /\ \A r \in Slots : WF_vars(Progress(r))

\* The handler with providers whose replies may also be malformed.
NextProviders ==
    \/ \E r \in Slots, a \in Audios, u \in UserIds : Receive(r, a, u)
    \/ \E r \in Slots, o \in SttOutcomesAll : SttAttemptDone(r, o)
    \/ \E r \in Slots : SttDelayDone(r)
    \/ \E r \in Slots, o \in LlmOutcomesAll : LlmAttemptDone(r, o)
    \/ \E r \in Slots : LlmDelayDone(r)
    \/ \E r \in Slots, o \in TtsOutcomesAll : TtsAttemptDone(r, o)
    \/ \E r \in Slots : TtsDelayDone(r)

SpecProviders == InitLive /\ [][NextProviders]_vars

\* The whole express application, started with any NODE_ENV: the body
\* parser, the handler, the 404 handler and the error-handling middleware.
InitServer ==
    /\ elevenLabsKey \in BOOLEAN
    /\ development \in BOOLEAN
    /\ sessions = NoSessions
    /\ InitCommon

NextServer ==
    \/ Next
    \/ \E r \in Slots, err \in MiddlewareErrors : RejectBody(r, err)
    \/ \E r \in Slots : UnknownRoute(r)

SpecServer == InitServer /\ [][NextServer]_vars

\* One browser tab and the server it talks to. The server is taken by what
\* it answers; how long after an error the user clicks, and how long the
\* server takes, is free.
InitApp ==
    /\ elevenLabsKey = TRUE
    /\ development = FALSE
    /\ sessions = NoSessions
    /\ InitCommon

NextApp ==
    \/ \E granted \in BOOLEAN : StartRecording(granted)
    \/ \E size \in BlobSizes, readable \in BOOLEAN : StopRecording(size, readable)
    \/ \E i \in 1..MaxSubmissions :
          \E answer \in FullRuns \cup ShortRuns \cup UNION {backendAnswers(n) : n \in BlobSizes} :
             ResponseArrives(i, answer)
    \/ ResetTimerFires
    \/ PlaybackComplete
    \/ PlaybackError

SpecApp == InitApp /\ [][NextApp]_vars

(***************************************************************************)
(* Properties                                                              *)
(***************************************************************************)
Answered(q) == q.pc = "Done"
Succeeded(q) == Answered(q) /\ q.response.status = 200
Errored(q) == Answered(q) /\ q.response.status >= 400
BothFailed(attempts) ==
    Len(attempts) = 2 /\ ~attempts[1].ok /\ ~attempts[2].ok
RetrySucceeded(attempts) ==
    Len(attempts) = 2 /\ ~attempts[1].ok /\ attempts[2].ok
\* the request whose handler runs in this step
Acting(r) == req'[r].pc # req[r].pc
\* every stored conversation is still stored, with the same turns
ConversationsKept ==
    \A u \in DOMAIN sessions :
        /\ u \in DOMAIN sessions'
        /\ sessions'[u].conversation = sessions[u].conversation

\* C1: a request that ends in an error has appended no turn, and none of its
\* steps (from its arrival to the error response) changes the conversation
\* of any stored session.
C1_ErrorPreservesConversation ==
    [][\A r \in Slots :
          /\ Errored(req'[r]) =>
                /\ req'[r].persisted = << >>
                /\ req'[r].transcribedText = NULL
          /\ (Acting(r) /\ req'[r].transcribedText = NULL) => ConversationsKept
      ]_vars

C1_Witness ==
    \E r \in Slots :
        /\ Errored(req[r])
        /\ BothFailed(req[r].stt)
        /\ req[r].userId \in DOMAIN sessions
        /\ Len(sessions[req[r].userId].conversation) > 0

\* C2: every stored session's conversation has between 0 and 20 turns.
C2_ConversationLengthBounded ==
    \A u \in DOMAIN sessions :
        /\ Len(sessions[u].conversation) >= 0
        /\ Len(sessions[u].conversation) <= 20

C2_Witness ==
    \E u \in DOMAIN sessions :
        /\ Len(sessions[u].conversation) = 20
        /\ Len(appendLog[u]) > 20

\* C3: once more than 20 turns have been appended to a session since its
\* creation, its conversation is exactly the last 20 of them, in the order
\* in which they were appended.
C3_MostRecentTwentyKept ==
    \A u \in DOMAIN sessions :
        LET log == appendLog[u]
            conv == sessions[u].conversation
        IN  Len(log) > 20 =>
                /\ Len(conv) = 20
                /\ \A i \in 1..20 : conv[i] = log[Len(log) - 20 + i]

C3_Witness ==
    \E u \in DOMAIN sessions :
        /\ Len(appendLog[u]) >= 22
        /\ appendLog[u][Len(appendLog[u])].input # appendLog[u][Len(appendLog[u]) - 1].input

\* the text a successful run transcribed and the text it generated, read
\* from the run's attempts
TranscribedIn(q) == Last(q.stt).value
GeneratedIn(q) == IF Last(q.llm).ok THEN Last(q.llm).value ELSE FALLBACK_TEXT

\* C4 as stated: every successful run makes the conversation one turn
\* longer than it was before the run's append, and its last turn holds the
\* run's transcribed and generated text.
C4_AlwaysOneLonger ==
    \A r \in Slots :
        Succeeded(req[r]) =>
            /\ Len(req[r].persisted) = 1
            /\ req[r].persisted[1].lenAfter = req[r].persisted[1].lenBefore + 1
            /\ req[r].persisted[1].last.input = TranscribedIn(req[r])
            /\ req[r].persisted[1].last.output = GeneratedIn(req[r])

\* C4 as amended: every successful run appends exactly once; the
\* conversation is one turn longer than it was immediately before the append
\* when it held fewer than 20 turns, and still holds 20 turns when it held
\* 20; in both cases its last turn holds the run's transcribed and generated
\* text.
C4_OneLongerBelowCap ==
    \A r \in Slots :
        Succeeded(req[r]) =>
            /\ Len(req[r].persisted) = 1
            /\ req[r].persisted[1].lenAfter =
                  (IF req[r].persisted[1].lenBefore < 20
                   THEN req[r].persisted[1].lenBefore + 1 ELSE 20)
            /\ req[r].persisted[1].last.input = TranscribedIn(req[r])
            /\ req[r].persisted[1].last.output = GeneratedIn(req[r])

C4_Witness ==
    \E r \in Slots :
        /\ Succeeded(req[r])
        /\ req[r].persisted[1].lenBefore = 20
        /\ req[r].persisted[1].lenAfter = 20

\* C5: each remote call of a request makes at most two attempts, a second
\* one only after the first failed and none after a success; the call's
\* terminal-failure behaviour (the transcription error, the fallback text,
\* the request going on without provider audio) appears only after exactly
\* two failed attempts.
AttemptsWellFormed(attempts) ==
    /\ Len(attempts) <= 2
    /\ \A i \in 1..Len(attempts) : attempts[i].ok => i = Len(attempts)
C5_AtMostTwoAttempts ==
    \A r \in Slots :
        /\ AttemptsWellFormed(req[r].stt)
        /\ AttemptsWellFormed(req[r].llm)
        /\ AttemptsWellFormed(req[r].tts)
        /\ (Errored(req[r]) /\ req[r].response.body.message = MSG_STT_TERMINAL)
              => BothFailed(req[r].stt)
        /\ (Answered(req[r]) /\ req[r].stt # << >> /\ ~Last(req[r].stt).ok)
              => BothFailed(req[r].stt)
        /\ req[r].aiResponse = FALLBACK_TEXT => BothFailed(req[r].llm)
        /\ (req[r].synthText # NULL /\ ~Last(req[r].llm).ok)
              => BothFailed(req[r].llm)
        /\ (Answered(req[r]) /\ req[r].tts # << >> /\ ~Last(req[r].tts).ok)
              => BothFailed(req[r].tts)

C5_Witness ==
    \E r \in Slots :
        /\ BothFailed(req[r].llm)
        /\ req[r].aiResponse = FALLBACK_TEXT

\* C6: when the first attempt of a call fails and the second succeeds, no
\* further attempt is made and the call yields what the second attempt
\* returned.
C6_RetryResultReturned ==
    \A r \in Slots :
        /\ RetrySucceeded(req[r].stt) =>
              /\ req[r].transcribedText = req[r].stt[2].value
              /\ ~Errored(req[r])
        /\ RetrySucceeded(req[r].llm) =>
              /\ req[r].aiResponse = req[r].llm[2].value
              /\ req[r].aiResponse # FALLBACK_TEXT
        /\ RetrySucceeded(req[r].tts) =>
              /\ req[r].audioBase64 = Base64(req[r].tts[2].value)
              /\ req[r].audioBase64 # Base64(req[r].synthText)
        /\ \A c \in {"stt", "llm", "tts"} : Len(req[r][c]) <= 2

C6_Witness ==
    \E r \in Slots :
        /\ RetrySucceeded(req[r].llm)
        /\ Answered(req[r])

\* C7: when both reasoning attempts fail, the reply is the fixed fallback
\* text, synthesize is called with it, the request is answered with status
\* 200 and that text as textResponse, and the turn it appends has that text
\* as output.
C7_FallbackReplyContinues ==
    \A r \in Slots :
        BothFailed(req[r].llm) =>
            /\ req[r].aiResponse =
                  << "Sorry, I didn't fully understand, could you rephrase?" >>
            /\ req[r].synthText = req[r].aiResponse
            /\ ~Errored(req[r])
            /\ Answered(req[r]) =>
                  /\ req[r].response.status = 200
                  /\ req[r].response.body.textResponse = req[r].aiResponse
                  /\ Len(req[r].persisted) = 1
                  /\ req[r].persisted[1].last.output = req[r].aiResponse

C7_Witness ==
    \E r \in Slots :
        /\ BothFailed(req[r].llm)
        /\ Succeeded(req[r])

\* C8: a request that reached the synthesis step is never answered with an
\* error: whatever the synthesis attempts did, it appends its turn and is
\* answered with status 200.
C8_SynthesisFailsOpen ==
    \A r \in Slots :
        req[r].synthText # NULL =>
            /\ ~Errored(req[r])
            /\ Answered(req[r]) =>
                  /\ req[r].response.status = 200
                  /\ Len(req[r].persisted) = 1

C8_Witness ==
    \E r \in Slots :
        /\ BothFailed(req[r].tts)
        /\ Succeeded(req[r])
        /\ Len(req[r].persisted) = 1

\* C9: when both synthesis attempts of a request fail, the audioUrl of the
\* success response is the empty string.
C9_EmptyAudioUrlAfterSynthesisFailure ==
    \A r \in Slots :
        (Succeeded(req[r]) /\ BothFailed(req[r].tts)) =>
            req[r].response.body.audioUrl = << >>

\* C10: when both transcription attempts of a request fail, the request is
\* answered with HTTP status 503 and statusCode 503.
C10_TranscriptionFailureIs503 ==
    \A r \in Slots :
        (Answered(req[r]) /\ BothFailed(req[r].stt)
           /\ req[r].stt[1].remote /\ req[r].stt[2].remote) =>
            /\ req[r].response.status = 503
            /\ req[r].response.body.statusCode = 503

\* C11: when both transcription attempts of a request fail, transcribe throws
\* an Error whose message is exactly "I couldn't hear that clearly. Please
\* try again." (the handler's catch block receives that message), whatever
\* the two attempts threw.
C11_TerminalMessageFixed ==
    \A r \in Slots :
        BothFailed(req[r].stt) =>
            /\ Errored(req[r])
            /\ req[r].transcribedText = NULL
            /\ req[r].response.body.message = MSG_STT_TERMINAL
            /\ req[r].response.body.message # attemptErrorMessage(req[r].stt[1])
            /\ req[r].response.body.message # attemptErrorMessage(req[r].stt[2])

C11_Witness ==
    \E r \in Slots :
        /\ BothFailed(req[r].stt)
        /\ req[r].stt[1].error = "timeout"
        /\ req[r].stt[2].error = "error"
        /\ Errored(req[r])

\* C12: a request whose audio or userId is missing or empty is answered at
\* once with status 400 and exactly {error: "ValidationError", message:
\* "Both audio and userId are required", statusCode: 400}; the step makes no
\* transcription, reasoning or synthesis attempt and reads, creates and
\* modifies no session, and the request takes no step afterwards.
C12_ValidationRejects ==
    [][\A r \in Slots :
          /\ (/\ req[r].pc = "Idle"
              /\ req'[r].pc # "Idle"
              /\ (~req'[r].audio.given \/ req'[r].userId = "")) =>
                /\ req'[r].pc = "Done"
                /\ req'[r].response =
                      [status |-> 400,
                       body |-> [error |-> "ValidationError",
                                 message |-> MSG_VALIDATION,
                                 statusCode |-> 400]]
                /\ req'[r].stt = << >>
                /\ req'[r].llm = << >>
                /\ req'[r].tts = << >>
                /\ req'[r].synthText = NULL
                /\ req'[r].persisted = << >>
                /\ sessions' = sessions
          /\ req[r].pc = "Done" => req'[r] = req[r]
      ]_vars

C12_Witness ==
    \E r \in Slots :
        /\ req[r].pc = "Done"
        /\ req[r].audio.given
        /\ req[r].userId = ""
        /\ req[r].response.status = 400
        /\ \E u \in DOMAIN sessions : Len(sessions[u].conversation) > 0

ThreeFields == {"error", "message", "statusCode"}

FailureCategory(q) ==
    IF missingParameters(q.audio, q.userId) THEN "validation"
    ELSE IF q.stt = << >> THEN "upstream"      \* no API key for the provider
    ELSE IF Last(q.stt).error = "timeout" THEN "timeout"
    ELSE IF Last(q.stt).error = "error" THEN "upstream"
    ELSE "other"

StatusTable(category) ==
    CASE category = "validation" -> 400
      [] category = "timeout" -> 504
      [] category = "upstream" -> 503
      [] OTHER -> 500

\* C15: the status of a failure response is given by the category of the
\* failure (validation 400, timeout 504, upstream-service failure 503,
\* anything else 500), and two failures of the same category never get
\* different statuses.
C15_CategoryDeterminesStatus ==
    /\ \A r \in Slots :
          Errored(req[r]) =>
              req[r].response.status = StatusTable(FailureCategory(req[r]))
    /\ \A r1, r2 \in Slots :
          (/\ Errored(req[r1])
           /\ Errored(req[r2])
           /\ FailureCategory(req[r1]) = FailureCategory(req[r2])) =>
              req[r1].response.status = req[r2].response.status

\* the position of a request in the handler: 0 Validating, 1 Transcribing,
\* 3 Reasoning (entered by Contextualizing, 2), 4 Synthesizing, 6 Responding
\* (entered on success by Persisting, 5)
Rank(pc) ==
    CASE pc = "Idle" -> 0
      [] pc \in {"Transcribing", "SttDelay"} -> 1
      [] pc \in {"Reasoning", "LlmDelay"} -> 3
      [] pc \in {"Synthesizing", "TtsDelay"} -> 4
      [] OTHER -> 6
\* a call whose attempts are over
Finished(attempts) ==
    attempts # << >> /\ (Last(attempts).ok \/ BothFailed(attempts))

\* C16: a request moves through Validating, Transcribing, Contextualizing,
\* Reasoning, Synthesizing, Persisting and Responding in that order and never
\* backwards; it leaves a step only for the next one or for an error
\* response; its steps up to the end of transcription leave the store alone,
\* the session is read in the step that ends a successful transcription, and
\* the turn is appended after reasoning and synthesis are over, in the step
\* that sends the success response.
C16_StepsInOrder ==
    [][\A r \in Slots :
          LET q == req[r]
              q1 == req'[r]
              u == q1.userId
          IN  /\ Rank(q1.pc) >= Rank(q.pc)
              /\ Rank(q.pc) = 0 =>
                    \/ Rank(q1.pc) \in {0, 1}
                    \/ Errored(q1)
              /\ Rank(q.pc) = 1 =>
                    \/ Rank(q1.pc) \in {1, 3}
                    \/ Errored(q1)
              /\ Rank(q.pc) = 3 => Rank(q1.pc) \in {3, 4}
              /\ Rank(q.pc) = 4 => (Rank(q1.pc) = 4 \/ Succeeded(q1))
              /\ (Acting(r) /\ Rank(q1.pc) <= 1) => sessions' = sessions
              /\ (Rank(q.pc) = 1 /\ Rank(q1.pc) = 3) =>
                    /\ Last(q1.stt).ok
                    /\ q1.transcribedText = Last(q1.stt).value
                    /\ q1.llm = << >>
                    /\ u \in DOMAIN sessions'
                    /\ sessions'[u].lastAccessedAt = now
                    /\ q1.conversationHistory = sessions'[u].conversation
              /\ (Rank(q.pc) = 3 /\ Rank(q1.pc) = 4) =>
                    /\ Finished(q1.llm)
                    /\ q1.aiResponse # NULL
                    /\ q1.synthText = q1.aiResponse
                    /\ q1.tts = << >>
              /\ Rank(q1.pc) < 6 =>
                    /\ q1.persisted = << >>
                    /\ q1.response = NoResponse
              /\ (q.persisted = << >> /\ q1.persisted # << >>) =>
                    /\ Rank(q.pc) = 4
                    /\ Finished(q1.llm)
                    /\ Finished(q1.tts)
                    /\ q1.synthText # NULL
                    /\ Succeeded(q1)
                    /\ Last(sessions'[u].conversation).input = q1.transcribedText
                    /\ Last(sessions'[u].conversation).output = q1.aiResponse
              /\ Succeeded(q1) => Len(q1.persisted) = 1
      ]_vars

C16_Witness ==
    \E r \in Slots :
        /\ Succeeded(req[r])
        /\ RetrySucceeded(req[r].stt)
        /\ RetrySucceeded(req[r].tts)
        /\ Len(req[r].persisted) = 1

SuccessShape(response) ==
    /\ response.status = 200
    /\ DOMAIN response.body = {"textResponse", "audioUrl"}
ErrorShape(response) ==
    /\ response.status >= 400
    /\ DOMAIN response.body = {"error", "message", "statusCode"}

\* C17: every request that has arrived is eventually answered, whatever its
\* remote calls do, as long as each attempt ends and each retry delay
\* elapses; the answer is one response of the success shape or of the error
\* shape, a request that is not answered yet has sent nothing, and an
\* answered request takes no further step (it is not answered again).
C17_EveryRequestAnsweredOnce ==
    /\ \A r \in Slots : (req[r].pc # "Idle") ~> Answered(req[r])
    /\ [](\A r \in Slots :
            /\ Answered(req[r]) =>
                  \/ SuccessShape(req[r].response)
                  \/ ErrorShape(req[r].response)
            /\ ~Answered(req[r]) => req[r].response = NoResponse)
    /\ [][\A r \in Slots : Answered(req[r]) => req'[r] = req[r]]_vars

C17_Witness ==
    /\ \E r \in Slots :
          /\ Succeeded(req[r])
          /\ BothFailed(req[r].llm)
    /\ \E r \in Slots :
          /\ Errored(req[r])
          /\ BothFailed(req[r].stt)

\* what cleanupSessions must leave of the store S at time t
SweptRight(S, S1, t) ==
    \A u \in DOMAIN S :
        /\ t - S[u].lastAccessedAt > SESSION_TIMEOUT => u \notin DOMAIN S1
        /\ t - S[u].lastAccessedAt <= SESSION_TIMEOUT =>
              /\ u \in DOMAIN S1
              /\ S1[u] = S[u]

\* C18: immediately after cleanupSessions has run at time now, every session
\* with now - lastAccessedAt > sessionTimeout is absent from the store and
\* every other session (one idle for exactly the timeout included) is still
\* there, unchanged: in every store the manager can hold, and in every step
\* of the cleanup timer.
C18_SweepEvictsIdleOnly ==
    /\ [](/\ SweptRight(sessions, cleanupSessions(sessions, now), now)
          /\ DOMAIN cleanupSessions(sessions, now) \subseteq DOMAIN sessions)
    /\ [][Sweep => SweptRight(sessions, sessions', now)]_vars

C18_Witness ==
    /\ now = 2
    /\ "u1" \notin DOMAIN sessions
    /\ "u2" \in DOMAIN sessions
    /\ now - sessions["u2"].lastAccessedAt = SESSION_TIMEOUT
    /\ Len(sessions["u2"].conversation) = 1
    /\ storeCalls = 1

\* what getSession(userId) must make of the store S at time t
GotRight(S, S1, userId, t) ==
    /\ userId \in DOMAIN S1
    /\ S1[userId].userId = userId
    /\ userId \notin DOMAIN S =>
          /\ S1[userId].conversation = << >>
          /\ S1[userId].createdAt = t
          /\ S1[userId].lastAccessedAt = t
    /\ userId \in DOMAIN S =>
          /\ S1[userId].conversation = S[userId].conversation
          /\ S1[userId].createdAt = S[userId].createdAt
          /\ S1[userId].lastAccessedAt = t
    /\ DOMAIN S1 = DOMAIN S \cup {userId}

\* C19: getSession(userId) always returns a session: for a userId without a
\* session it stores and returns a session with that userId and an empty
\* conversation; for a userId with a session it returns that session with
\* its conversation unchanged and lastAccessedAt set to the current time.
C19_GetSessionTotal ==
    /\ [](\A u \in Users : GotRight(sessions, getSession(sessions, u, now), u, now))
    /\ [][\A u \in Users :
            GetSessionCall(u) => GotRight(sessions, sessions', u, now)]_vars

C19_Witness ==
    /\ storeCalls = 0
    /\ "u1" \in DOMAIN sessions
    /\ sessions["u1"].lastAccessedAt = 1
    /\ sessions["u1"].createdAt = 0
    /\ Len(sessions["u1"].conversation) = 19
    /\ "u2" \in DOMAIN sessions
    /\ sessions["u2"].conversation = << >>

\* every session but userId's is in S1 exactly as it is in S
OthersUntouched(S, S1, userId) ==
    \A v \in Users \ {userId} :
        /\ v \in DOMAIN S <=> v \in DOMAIN S1
        /\ v \in DOMAIN S => S1[v] = S[v]

\* C20: a getSession or an updateSession for one userId, and every step of a
\* request of one userId, leaves the session of every other userId as it
\* is: present or absent, with the same conversation and the same
\* timestamps, however the requests interleave.
C20_UsersIndependent ==
    /\ [](\A u \in Users :
            /\ OthersUntouched(sessions, getSession(sessions, u, now), u)
            /\ \A i \in StoreInputs, o \in StoreOutputs :
                  OthersUntouched(sessions,
                                  updateSession(sessions, u, i, o, now), u))
    /\ [][\A r \in Slots :
            Acting(r) => OthersUntouched(sessions, sessions', req'[r].userId)]_vars

C20_Witness ==
    \E r1, r2 \in Slots :
        /\ Succeeded(req[r1])
        /\ Succeeded(req[r2])
        /\ req[r1].userId = "u1"
        /\ req[r2].userId = "u2"
        /\ Len(sessions["u1"].conversation) = 20
        /\ Len(sessions["u2"].conversation) = 1

\* the conversation stored for userId in S (none when there is no session)
conversationOf(S, userId) ==
    IF userId \in DOMAIN S THEN S[userId].conversation ELSE << >>

\* C21: every append of a successful request puts the request's own turn
\* behind the turns the session holds at that moment (session below the
\* cap), so that no append overwrites or loses a turn; in particular, when a
\* request persists after another request for the same userId whose turn the
\* session still holds, the conversation then holds both turns, the earlier
\* Persisting step's turn first; and as long as a session has received at
\* most 20 turns its conversation is exactly the turns appended to it, in
\* the order of the Persisting steps.
C21_OverlappingAppendsBothKept ==
    /\ [](\A u \in DOMAIN sessions :
            Len(appendLog[u]) <= 20 => sessions[u].conversation = appendLog[u])
    /\ [][\A r2 \in Slots :
            (Acting(r2) /\ Succeeded(req'[r2])) =>
                LET u == req'[r2].userId
                    before == conversationOf(sessions, u)
                    after == sessions'[u].conversation
                    own == ConversationTurn(req'[r2].transcribedText,
                                            req'[r2].aiResponse, now)
                IN  Len(before) < 20 =>
                       /\ after = Append(before, own)
                       /\ \A r1 \in Slots \ {r2} :
                             (/\ Succeeded(req[r1])
                              /\ req[r1].userId = u
                              /\ Len(before) >= req[r1].persisted[1].lenAfter
                              /\ before[req[r1].persisted[1].lenAfter]
                                    = req[r1].persisted[1].last) =>
                                 /\ after[req[r1].persisted[1].lenAfter]
                                       = req[r1].persisted[1].last
                                 /\ req[r1].persisted[1].lenAfter < Len(after)
                                 /\ after[Len(after)] = own
          ]_vars

\* Request 2 arrived after request 1 and persisted before it: the two
\* overlapped, and the session holds both turns.
C21_Witness ==
    /\ Succeeded(req[1])
    /\ Succeeded(req[2])
    /\ req[1].userId = "u2"
    /\ req[2].userId = "u2"
    /\ req[2].persisted[1].lenAfter = 1
    /\ req[1].persisted[1].lenAfter = 2
    /\ Len(sessions["u2"].conversation) = 2
    /\ sessions["u2"].conversation[1] = req[2].persisted[1].last
    /\ sessions["u2"].conversation[2] = req[1].persisted[1].last
    /\ sessions["u2"].conversation[1].timestamp < sessions["u2"].conversation[2].timestamp

IsSpeakerLine(line) == line[1] \in {"User: ", "Assistant: "}

\* prompt is the fixed instruction block, then every turn of history in
\* order as a User line followed by an Assistant line, then userInput as the
\* last User line, then the open Assistant cue
PromptFaithful(prompt, userInput, history) ==
    LET spoken == SelectSeq(prompt, IsSpeakerLine)
        K == Len(history)
    IN  /\ Len(prompt) >= 3
        /\ prompt[1] =
              << "You are a senior software engineer acting as a rubber duck debugger.",
                 "\n\n" >>
        /\ Len(spoken) = 2 * K + 1
        /\ \A i \in 1..K :
              /\ spoken[2 * i - 1] = << "User: ", history[i].input, "\n" >>
              /\ spoken[2 * i] = << "Assistant: ", history[i].output, "\n\n" >>
        /\ spoken[2 * K + 1] = << "User: ", userInput, "\n" >>
        /\ prompt[Len(prompt) - 1] = << "User: ", userInput, "\n" >>
        /\ prompt[Len(prompt)] = << "Assistant:" >>
        /\ ~IsSpeakerLine(prompt[1])

\* C22: constructPrompt(userInput, history) begins with the fixed system
\* instructions, then holds every turn of the history it is given, in the
\* given order, as a User line followed by an Assistant line, then the new
\* input as the last User line, and ends with the open Assistant cue: for
\* every sequence of turns ever appended to a session (more than 20 turns
\* included), and for the prompt of every reasoning attempt of every request.
C22_PromptFaithful ==
    /\ [](\A u \in Users, input \in SttTexts \cup StoreInputs :
            PromptFaithful(constructPrompt(input, appendLog[u]), input, appendLog[u]))
    /\ [][\A r \in Slots :
            (req'[r].prompt # req[r].prompt /\ req'[r].prompt # NULL) =>
                PromptFaithful(req'[r].prompt, req'[r].transcribedText,
                               req'[r].conversationHistory)]_vars

C22_Witness ==
    /\ Len(appendLog["u1"]) = 20
    /\ \E r \in Slots :
          /\ req[r].pc = "Reasoning"
          /\ Len(req[r].llm) = 1
          /\ Len(req[r].conversationHistory) = 20
          /\ Len(req[r].prompt) = 44

\* C23: every attempt of a transcription, reasoning or synthesis call ends
\* within 10,000 ms, and an attempt that ends by its timeout is a failed
\* attempt.
C23_AttemptsBoundedByTenSeconds ==
    [][\A r \in Slots :
          /\ \A o \in SttOutcomes :
                SttAttemptDone(r, o) =>
                    /\ o.elapsed <= 10000
                    /\ o.kind = "timeout" => ~Last(req'[r].stt).ok
          /\ \A o \in LlmOutcomes :
                LlmAttemptDone(r, o) =>
                    /\ o.elapsed <= 10000
                    /\ o.kind = "timeout" => ~Last(req'[r].llm).ok
          /\ \A o \in TtsOutcomes :
                TtsAttemptDone(r, o) =>
                    /\ o.elapsed <= 10000
                    /\ o.kind = "timeout" => ~Last(req'[r].tts).ok
      ]_vars

\* where the outcome o of an attempt leads a call that had made the attempts
\* `before`: to the retry delay after a failed first attempt, and on (to the
\* next stage or to the answer) otherwise
RetryRule(o, before, pcAfter, delaying, attempting) ==
    /\ (~o.ok /\ before = << >>) => pcAfter = delaying
    /\ (~o.ok /\ before # << >>) => pcAfter \notin {delaying, attempting}
    /\ o.ok => pcAfter \notin {delaying, attempting}

\* C24 (as the code has it): in each of the three remote calls every first
\* attempt that fails is followed by the retry delay and exactly one more
\* attempt, whatever the kind of failure; a timeout and a transport error
\* are failures in all three calls, a malformed reply is a failure in the
\* reasoning call only: a transcription reply without text and a synthesis
\* reply with an empty body are successful attempts and are not retried.
C24_EveryFailureRetriedOnce ==
    [][\A r \in Slots :
          /\ \A o \in SttOutcomesAll :
                SttAttemptDone(r, o) =>
                    /\ RetryRule(o, req[r].stt, req'[r].pc, "SttDelay", "Transcribing")
                    /\ o.ok <=> o.kind \in {"ok", "malformed"}
                    /\ Last(req'[r].stt).ok = o.ok
          /\ \A o \in LlmOutcomesAll :
                LlmAttemptDone(r, o) =>
                    /\ RetryRule(o, req[r].llm, req'[r].pc, "LlmDelay", "Reasoning")
                    /\ o.ok <=> o.kind = "ok"
                    /\ Last(req'[r].llm).ok = o.ok
          /\ \A o \in TtsOutcomesAll :
                TtsAttemptDone(r, o) =>
                    /\ RetryRule(o, req[r].tts, req'[r].pc, "TtsDelay", "Synthesizing")
                    /\ o.ok <=> o.kind \in {"ok", "malformed"}
                    /\ Last(req'[r].tts).ok = o.ok
          /\ SttDelayDone(r) =>
                /\ Len(req[r].stt) = 1
                /\ req'[r].pc = "Transcribing" \/ Len(req'[r].stt) = 2
          /\ LlmDelayDone(r) => (Len(req[r].llm) = 1 /\ req'[r].pc = "Reasoning")
          /\ TtsDelayDone(r) => (Len(req[r].tts) = 1 /\ req'[r].pc = "Synthesizing")
      ]_vars

\* One request was retried after a transcription timeout and after a failed
\* reasoning attempt; the other got a transcription reply without text and a
\* synthesis reply without audio, each accepted at the first attempt.
C24_Witness ==
    \E r1, r2 \in Slots :
        /\ Succeeded(req[r1])
        /\ Len(req[r1].stt) = 2
        /\ req[r1].stt[1].error = "timeout"
        /\ req[r1].stt[2].ok
        /\ RetrySucceeded(req[r1].llm)
        /\ Succeeded(req[r2])
        /\ Len(req[r2].stt) = 1
        /\ req[r2].stt[1].error = "malformed"
        /\ req[r2].transcribedText = << >>
        /\ Len(req[r2].tts) = 1
        /\ req[r2].tts[1].value = << >>
        /\ req[r2].response.body.audioUrl = << >>

\* C24 (as stated): in each of the three remote calls a timeout, a
\* transport error and a malformed provider reply at the first attempt each
\* count as a failed attempt and are each followed by the retry delay and a
\* second attempt.
C24_AllKindsRetriedOnce ==
    [][\A r \in Slots :
          /\ \A o \in SttOutcomesAll :
                (SttAttemptDone(r, o) /\ req[r].stt = << >> /\ o.kind # "ok") =>
                    (~Last(req'[r].stt).ok /\ req'[r].pc = "SttDelay")
          /\ \A o \in LlmOutcomesAll :
                (LlmAttemptDone(r, o) /\ req[r].llm = << >> /\ o.kind # "ok") =>
                    (~Last(req'[r].llm).ok /\ req'[r].pc = "LlmDelay")
          /\ \A o \in TtsOutcomesAll :
                (TtsAttemptDone(r, o) /\ req[r].tts = << >> /\ o.kind # "ok") =>
                    (~Last(req'[r].tts).ok /\ req'[r].pc = "TtsDelay")
      ]_vars

\* C25: after both synthesis attempts of a call have failed (the provider was
\* called exactly twice), synthesize throws and returns no value: the
\* handler's catch block runs and audioBase64 keeps its initial null.
C25_SynthesizeThrowsAfterBothFail ==
    \A r \in Slots :
        BothFailed(req[r].tts) =>
            /\ req[r].tts[1].remote /\ req[r].tts[2].remote
            /\ ttsReturn(req[r].tts, req[r].synthText).threw
            /\ Answered(req[r]) => req[r].audioBase64 = NULL

\* C26: without an API key for synthesis a request with audio and userId
\* still succeeds, with textResponse set and audioUrl the empty string, no
\* synthesis attempt made and no retry delay waited.
C26_TextOnlyWithoutSynthesisKey ==
    \A r \in Slots :
        (/\ ~elevenLabsKey
         /\ Answered(req[r])
         /\ ~missingParameters(req[r].audio, req[r].userId)) =>
            /\ Succeeded(req[r])
            /\ Truthy(req[r].response.body.textResponse)
            /\ req[r].response.body.audioUrl = << >>
            /\ req[r].tts = << >>

\* session u has been idle for longer than the timeout
Expired(u) ==
    u \in DOMAIN sessions /\ now - sessions[u].lastAccessedAt > SESSION_TIMEOUT

\* C27: a session that is not accessed again is eventually removed: a session
\* last accessed at t (with t + timeout before the end of the clock) is
\* eventually removed or accessed again; a session idle for longer than the
\* timeout is removed by the next sweep unless it is accessed before; and a
\* sweep is due exactly when some session has been idle for longer than the
\* timeout, whatever calls were or were not made.
C27_IdleSessionEventuallySwept ==
    /\ \A u \in Users, t \in 0..MaxClock :
          (/\ u \in DOMAIN sessions
           /\ sessions[u].lastAccessedAt = t
           /\ t + SESSION_TIMEOUT < MaxClock)
             ~> (u \notin DOMAIN sessions \/ sessions[u].lastAccessedAt # t)
    /\ \A u \in Users : Expired(u) ~> ~Expired(u)
    /\ [][\A u \in Users : (Sweep /\ Expired(u)) => u \notin DOMAIN sessions']_vars
    /\ [](ENABLED Sweep <=> \E u \in Users : Expired(u))

\* The seeded session was swept after two hours without access, and the
\* other session, accessed since, was kept.
C27_Witness ==
    /\ now = 2
    /\ "u1" \notin DOMAIN sessions
    /\ "u2" \in DOMAIN sessions
    /\ sessions["u2"].lastAccessedAt = 2
    /\ sessions["u2"].createdAt = 0
    /\ storeCalls = 0

\* the retry delays request q has awaited in the remote call `call`
WaitsOf(q, call) == {i \in 1..Len(q.waited) : q.waited[i].call = call}

\* a second attempt of a call with the attempts made so far has started:
\* made, or under way
SecondStarted(attempts, pc, attempting) ==
    Len(attempts) = 2 \/ (Len(attempts) = 1 /\ pc = attempting)

\* the second attempt has started exactly when one delay was awaited, and
\* no delay is awaited after a first attempt that succeeded
DelayRule(q, call, attempts, attempting) ==
    /\ SecondStarted(attempts, q.pc, attempting) <=> Cardinality(WaitsOf(q, call)) = 1
    /\ Cardinality(WaitsOf(q, call)) <= 1
    /\ (attempts # << >> /\ attempts[1].ok) => WaitsOf(q, call) = {}

\* C28: in each of the three remote calls of a request, the second attempt
\* has started only if the retry delay, 1000 ms, was awaited after the failed
\* first attempt, once; no delay is awaited after a first attempt that
\* succeeded, and the delays are awaited in the order of the calls.
C28_DelayBeforeSecondAttempt ==
    \A r \in Slots :
        /\ DelayRule(req[r], "stt", req[r].stt, "Transcribing")
        /\ DelayRule(req[r], "llm", req[r].llm, "Reasoning")
        /\ DelayRule(req[r], "tts", req[r].tts, "Synthesizing")
        /\ \A i \in 1..Len(req[r].waited) : req[r].waited[i].ms = 1000
        /\ \A i, j \in 1..Len(req[r].waited) :
              (i < j /\ req[r].waited[j].call = "stt") => req[r].waited[i].call = "stt"

C28_Witness ==
    \E r \in Slots :
        /\ Succeeded(req[r])
        /\ RetrySucceeded(req[r].stt)
        /\ Len(req[r].llm) = 1
        /\ RetrySucceeded(req[r].tts)
        /\ req[r].waited = << [call |-> "stt", ms |-> 1000],
                              [call |-> "tts", ms |-> 1000] >>

\* the timestamps of userId's session in S1, the store a read or a write at
\* time t has made of S: lastAccessedAt is t; createdAt is the time of
\* creation, which is t only for a session the call has created
TimestampsRight(S, S1, userId, t) ==
    /\ S1[userId].lastAccessedAt = t
    /\ S1[userId].createdAt =
          IF userId \in DOMAIN S THEN S[userId].createdAt ELSE t
    /\ S1[userId].createdAt <= S1[userId].lastAccessedAt

\* C29 (as the code has it): every getSession and every updateSession of a
\* session sets its lastAccessedAt to the current time and leaves its
\* createdAt at the time the session was created.
C29_OnlyLastAccessedRefreshed ==
    /\ [](\A u \in Users, i \in StoreInputs, o \in StoreOutputs :
            /\ TimestampsRight(sessions, getSession(sessions, u, now), u, now)
            /\ TimestampsRight(sessions, updateSession(sessions, u, i, o, now), u, now))
    /\ [][\A u \in Users :
            /\ GetSessionCall(u) => TimestampsRight(sessions, sessions', u, now)
            /\ \A i \in StoreInputs, o \in StoreOutputs :
                  UpdateSessionCall(u, i, o) =>
                      TimestampsRight(sessions, sessions', u, now)]_vars

\* A session created at 0, written at 1 and read at 2.
C29_Witness ==
    /\ now = 2
    /\ "u2" \in DOMAIN sessions
    /\ sessions["u2"].createdAt = 0
    /\ sessions["u2"].lastAccessedAt = 2
    /\ Len(sessions["u2"].conversation) = 1
    /\ sessions["u2"].conversation[1].timestamp = 1

\* C29 (as stated): after every getSession and every updateSession of a
\* session both its createdAt and its lastAccessedAt are the current time.
C29_BothTimestampsRefreshed ==
    \A u \in Users, i \in StoreInputs, o \in StoreOutputs :
        /\ getSession(sessions, u, now)[u].lastAccessedAt = now
        /\ getSession(sessions, u, now)[u].createdAt = now
        /\ updateSession(sessions, u, i, o, now)[u].lastAccessedAt = now
        /\ updateSession(sessions, u, i, o, now)[u].createdAt = now

\* what a sweep at time t must make of the store S: every session is either
\* gone as a whole or there exactly as it was, and a read or a write of any
\* userId afterwards acts as on a store with that key present or absent
SweepWhole(S, S1, t) ==
    /\ DOMAIN S1 \subseteq DOMAIN S
    /\ \A u \in DOMAIN S1 : S1[u] = S[u]
    /\ \A u \in Users :
          /\ GotRight(S1, getSession(S1, u, t), u, t)
          /\ u \in DOMAIN S1 =>
                getSession(S1, u, t)[u] = getSession(S, u, t)[u]
          /\ u \notin DOMAIN S1 =>
                getSession(S1, u, t) = createSession(S1, u, t)
          /\ \A i \in StoreInputs, o \in StoreOutputs :
                LET S2 == updateSession(S1, u, i, o, t)
                IN  /\ Last(S2[u].conversation) = ConversationTurn(i, o, t)
                    /\ u \in DOMAIN S1 => S2[u] = updateSession(S, u, i, o, t)[u]
                    /\ u \notin DOMAIN S1 =>
                          S2[u].conversation = << ConversationTurn(i, o, t) >>
                    /\ OthersUntouched(S1, S2, u)

\* C30: a sweep at any suspension point of the requests in flight leaves
\* every session either removed as a whole or exactly as it was
\* (conversation and timestamps), moves no request and changes none of the
\* values a request holds, and a getSession or updateSession of any userId
\* after it acts as on a store where the key is present or absent; a request
\* whose session was swept while it was in flight appends its turn to a new
\* session.
C30_SweepLeavesNoTornState ==
    /\ [](SweepWhole(sessions, cleanupSessions(sessions, now), now))
    /\ [][Sweep =>
            /\ SweepWhole(sessions, sessions', now)
            /\ \A r \in Slots :
                  req'[r] = [req[r] EXCEPT !.live = req'[r].live]]_vars
    /\ [][\A r \in Slots :
            (Acting(r) /\ Succeeded(req'[r])
               /\ req'[r].userId \notin DOMAIN sessions) =>
                 /\ sessions'[req'[r].userId].conversation =
                       << ConversationTurn(req'[r].transcribedText,
                                           req'[r].aiResponse, now) >>
                 /\ sessions'[req'[r].userId].createdAt = now]_vars

\* The session of "u1" was swept while a request of "u1" that had read its
\* 19 turns was waiting for the synthesis, and the request then stored its
\* turn in a new session.
C30_Witness ==
    \E r \in Slots :
        /\ Succeeded(req[r])
        /\ req[r].userId = "u1"
        /\ req[r].persisted[1].lenBefore = 0
        /\ req[r].persisted[1].lenAfter = 1
        /\ sessions["u1"].createdAt = 2
        /\ Len(sessions["u1"].conversation) = 1
        /\ sessions["u1"].conversation[1].input = req[r].transcribedText

\* the timestamps of the turns never decrease along the sequence
Chronological(conversation) ==
    \A i, j \in 1..Len(conversation) :
        i < j => conversation[i].timestamp <= conversation[j].timestamp

\* C31: with a clock that never goes back, the timestamps of the turns of
\* every session's conversation are non-decreasing in the order of the
\* sequence, and none is later than the current time; this holds as well
\* when two requests of one user store their turns in the other order than
\* they arrived.
C31_TimestampsNonDecreasing ==
    \A u \in DOMAIN sessions :
        /\ Chronological(sessions[u].conversation)
        /\ Chronological(appendLog[u])
        /\ \A i \in 1..Len(sessions[u].conversation) :
              sessions[u].conversation[i].timestamp <= now

\* Request 2 arrived second and stored its turn at 1; request 1 stored its
\* turn at 2, behind it.
C31_Witness ==
    /\ Succeeded(req[1])
    /\ Succeeded(req[2])
    /\ req[1].userId = "u2"
    /\ req[2].userId = "u2"
    /\ "u2" \in DOMAIN sessions
    /\ Len(sessions["u2"].conversation) = 2
    /\ sessions["u2"].conversation[1] = req[2].persisted[1].last
    /\ sessions["u2"].conversation[1].timestamp = 1
    /\ sessions["u2"].conversation[2] = req[1].persisted[1].last
    /\ sessions["u2"].conversation[2].timestamp = 2

\* C32: the prompt of the retry of a request's reasoning call is the prompt
\* of its first attempt, the one built at the Contextualizing step, and the
\* history in it has at most 20 turns: no turn another request has appended
\* since appears in it.
C32_RetryPromptIsFirstPrompt ==
    [][\A r \in Slots :
          LlmDelayDone(r) =>
              /\ req'[r].prompt = req[r].prompt
              /\ Len(req'[r].conversationHistory) <= 20
              /\ Len(req'[r].prompt) <= 2 * 20 + 4
      ]_vars

\* C33: a request whose transcription fails terminally leaves the store
\* untouched: none of its steps, from its arrival to the error response,
\* changes the store, so no session is created for its userId and an
\* existing session keeps its conversation and its lastAccessedAt; once it
\* is answered it has read no session and stored no turn.
C33_TranscriptionFailureLeavesStore ==
    /\ [][\A r \in Slots :
            (Acting(r) /\ req'[r].transcribedText = NULL) => sessions' = sessions]_vars
    /\ [](\A r \in Slots :
            (Answered(req[r]) /\ BothFailed(req[r].stt)) =>
                /\ Errored(req[r])
                /\ req[r].transcribedText = NULL
                /\ req[r].llm = << >>
                /\ req[r].persisted = << >>)

\* Both transcription attempts of a request of the unseen "u2" failed and
\* "u2" has no session; a request of "u1" failed one hour after the last
\* access of the session of "u1", which still has that time of access.
C33_Witness ==
    \E r1, r2 \in Slots :
        /\ Errored(req[r1])
        /\ BothFailed(req[r1].stt)
        /\ req[r1].stt[1].remote
        /\ req[r1].userId = "u2"
        /\ "u2" \notin DOMAIN sessions
        /\ Errored(req[r2])
        /\ BothFailed(req[r2].stt)
        /\ req[r2].userId = "u1"
        /\ now = 1
        /\ "u1" \in DOMAIN sessions
        /\ sessions["u1"].lastAccessedAt = 0
        /\ Len(sessions["u1"].conversation) = 19

\* C34: getSession never hands out a session that has been idle for longer
\* than the timeout: called for such a userId, before the sweep or after it,
\* it returns a session with an empty conversation, created now.
C34_ExpiredSessionNotHandedOut ==
    \A u \in Users :
        Expired(u) =>
            /\ getSession(sessions, u, now)[u].conversation = << >>
            /\ getSession(sessions, u, now)[u].createdAt = now

\* C35: the client accepts every success response of the server: whenever
\* the server has answered a submission with status 200 within the client's
\* timeout, submitAudio returns it (audioUrl empty included) and the App
\* shows the turn.
C35_ClientAcceptsEverySuccess ==
    [][\A i \in 1..MaxSubmissions :
          \A answer \in FullRuns :
             (/\ ResponseArrives(i, answer)
              /\ answer.response.status = 200
              /\ answer.duration <= CLIENT_TIMEOUT_MS) =>
                  /\ ~submitAudio(answer).threw
                  /\ ui'.turns = ui.turns + 1
                  /\ ui'.status = "playing"
      ]_vars

\* C36: a timer left over from an earlier error never changes the status
\* during a later recording or request: when it fires while a recording is
\* running or a submission is awaiting its answer, the status stays what
\* it was ('listening' or 'thinking').
C36_LeftoverTimerKeepsStatus ==
    [][(/\ ResetTimerFires
        /\ (ui.isRecording \/ ui.inFlight # << >>)
        /\ ui.status \in {"listening", "thinking"}) =>
            ui'.status = ui.status
      ]_vars

\* C37: the client's timeout covers the server's processing time: whatever
\* the providers do within their own timeouts and retries, the answer to a
\* submission in flight comes within CLIENT_TIMEOUT_MS, and the client has
\* never reported a timeout for a request the server answered with success.
C37_ClientTimeoutCoversWorstCase ==
    /\ ui.lastResult.error = "TimeoutError" =>
          ~(ui.lastResult.backendStatus \in 200..299)
    /\ \A i \in 1..Len(ui.inFlight) :
          \A answer \in backendAnswers(ui.inFlight[i]) :
             answer.duration <= CLIENT_TIMEOUT_MS

\* C38: every recording the recorder accepts fits the body parser: the
\* JSON body of every submission in flight is at most BODY_LIMIT_BYTES long,
\* so no submission is answered 413 by the body parser.
C38_AcceptedRecordingFitsBodyLimit ==
    /\ ui.lastResult.backendStatus # 413
    /\ \A i \in 1..Len(ui.inFlight) :
          jsonBodyLength(base64Length(ui.inFlight[i]), USER_ID_LENGTH)
              <= BODY_LIMIT_BYTES

====
